---- MODULE Spec2Model ----
(***************************************************************************)
(* Risk scoring engine of ParcelIQ (backend/services/risk_scoring.py).     *)
(*                                                                         *)
(* Numbers.  Python floats are modelled in fixed point:                    *)
(*   - factor subscores (0..1) are integers 0..Scale (hundredths);         *)
(*   - math.exp / math.tanh are computed in ten-thousandths and rounded    *)
(*     to hundredths;                                                      *)
(*   - the aggregation (weights, interaction, clamp, blend) is exact       *)
(*     rational arithmetic: a score is a record [n, d] meaning             *)
(*     100 * n / d points;                                                 *)
(*   - all weights are integers in twentieths (0.25 = 5/20, 0.15 = 3/20,   *)
(*     0.70 = 14/20, 0.30 = 6/20).                                         *)
(***************************************************************************)
EXTENDS Integers, Sequences, FiniteSets, TLC

VARIABLES
    HAS_SKLEARN,     \* scikit-learn / joblib importable (lines 35-42)
    HAS_SHAP,        \* shap importable (lines 44-48)
    csv,             \* data/synthetic_training_data.csv: None, or Some(dataset version)
    storage,         \* data/models/*.pkl: [gbm, lr, sc], each a File
    pc,              \* "unloaded", "ready" (module imported) or "import_failed"
    _model,          \* GradientBoostingClassifier, or None (line 303)
    _scaler,         \* StandardScaler, or None             (line 304)
    _delay_model,    \* LogisticRegression, or None         (line 305)
    _shap_explainer, \* SHAP TreeExplainer, or None         (line 306)
    call,            \* the last operation seen at the engine boundary
    first,           \* the first compute_risk_score call of this process, or None
    train,           \* per runner of _train_models: the statement it is at, or "idle"
    thr,             \* per request thread: its compute_risk_score call in progress
    log,             \* the statements the import's _train_models has executed
    summary          \* the last generate_risk_summary call on the last result, or None

vars == <<HAS_SKLEARN, HAS_SHAP, csv, storage, pc, _model, _scaler, _delay_model,
          _shap_explainer, call, first, train, thr, log, summary>>

(***************************************************************************)
(* Optional values: None is the empty sequence, a value v is <<v>>.        *)
(***************************************************************************)
None == << >>
Some(v) == <<v>>
IsNone(x) == x = << >>
Val(x) == x[1]
\* dict.get(key, default)
Get(x, default) == IF IsNone(x) THEN default ELSE Val(x)

Max(a, b) == IF a >= b THEN a ELSE b
Min(a, b) == IF a <= b THEN a ELSE b
Abs(a) == IF a >= 0 THEN a ELSE -a

(***************************************************************************)
(* The 0-100 point scale of the scores, and the resolution of a subscore.  *)
(***************************************************************************)
Scale == 100

(***************************************************************************)
(* math.exp(-a) for a >= 0.  Argument and result in ten-thousandths.       *)
(* Range reduction by ln 2 = 0.6931, then a degree-5 Taylor polynomial in  *)
(* Horner form.                                                            *)
(***************************************************************************)
RECURSIVE Pow2(_)
Pow2(q) == IF q = 0 THEN 1 ELSE 2 * Pow2(q - 1)

ExpNeg(a) ==
    LET q == a \div 6931
        r == a % 6931
        t5 == 10000 - (r \div 5)
        t4 == 10000 - ((r * t5) \div 40000)
        t3 == 10000 - ((r * t4) \div 30000)
        t2 == 10000 - ((r * t3) \div 20000)
        t1 == 10000 - ((r * t2) \div 10000)
    IN  IF q >= 14 THEN 0 ELSE t1 \div Pow2(q)

\* math.tanh(t), t in ten-thousandths, result in ten-thousandths
Tanh(t) ==
    LET e2 == ExpNeg(2 * Abs(t))
        v == ((10000 - e2) * 10000) \div (10000 + e2)
    IN  IF t >= 0 THEN v ELSE -v

\* a value in ten-thousandths rounded to a subscore in 0..Scale
ToScore(v) == (v * Scale + 5000) \div 10000

(***************************************************************************)
(* STAGE 1 - per-factor transforms.  Fractions (x, x0, anomaly, cv_delta)  *)
(* are in hundredths, k is the integer slope, distances in metres, ages    *)
(* in years, holding periods in tenths of a year.  _sigmoid works in       *)
(* ten-thousandths; every nl_ transform returns a subscore in 0..Scale.    *)
(***************************************************************************)
\* FAULT: the exponent has the wrong sign
_sigmoid_reversed(x, k, x0) ==
    LET z0 == k * (x - x0)
        z == Max(-50000, Min(50000, z0))
        e == ExpNeg(Abs(z) * 100)
    IN  IF z <= 0
        THEN 100000000 \div (10000 + e)
        ELSE (e * 10000) \div (10000 + e)

\* 1 / (1 + e^z) with z = -k (x - x0) clamped to [-500, 500]
_sigmoid(x, k, x0) ==
    LET z0 == -k * (x - x0)                       \* hundredths
        z == Max(-50000, Min(50000, z0))
        e == ExpNeg(Abs(z) * 100)                 \* e^(-|z|)
    IN  IF z <= 0
        THEN 100000000 \div (10000 + e)           \* 1 / (1 + e^z)
        ELSE (e * 10000) \div (10000 + e)         \* = e^(-z) / (e^(-z) + 1)

FLOOD_ALPHA == 50
LOT_SIGMOID_K == 15
EASEMENT_K == 10
AGE_HALF_LIFE == 40

\* FAULT: a special flood hazard zone code scores as inside the zone
nl_flood_risk_by_zone(inside_flood, distance_to_boundary_m, flood_zone) ==
    IF inside_flood \/ distance_to_boundary_m <= 0 \/ flood_zone \in {"AE", "VE"}
    THEN Scale
    ELSE ToScore(10000 - ExpNeg((FLOOD_ALPHA * 10000) \div distance_to_boundary_m))

nl_flood_risk(inside_flood, distance_to_boundary_m, flood_zone) ==
    IF inside_flood \/ distance_to_boundary_m <= 0
    THEN Scale
    ELSE ToScore(10000 - ExpNeg((FLOOD_ALPHA * 10000) \div distance_to_boundary_m))

\* FAULT: the sigmoid is centred at the default maximum, not at zoning_max
nl_lot_coverage_risk_default_max(coverage_ratio, zoning_max) ==
    ToScore(_sigmoid(coverage_ratio, LOT_SIGMOID_K, 70))

nl_lot_coverage_risk(coverage_ratio, zoning_max) ==
    ToScore(_sigmoid(coverage_ratio, LOT_SIGMOID_K, zoning_max))

nl_easement_risk(encroachment_pct) ==
    ToScore(_sigmoid(encroachment_pct, EASEMENT_K, 15))

nl_ownership_risk(num_transfers_5yr, avg_holding_period, anomaly_score) ==
    LET transfer_signal == Tanh((num_transfers_5yr * 10000) \div 3)
        hold_penalty == IF avg_holding_period > 0
                        THEN ExpNeg((avg_holding_period * 1000) \div 3)
                        ELSE 10000
        composite == (40 * (anomaly_score * 100) + 35 * transfer_signal
                      + 25 * hold_penalty) \div 100
    IN  ToScore(Max(0, Min(10000, composite)))

nl_age_risk(property_age) ==
    IF property_age <= 0 THEN 0
    ELSE ToScore(10000 - ExpNeg((property_age * 10000) \div AGE_HALF_LIFE))

nl_cv_discrepancy_risk(cv_delta) == ToScore(_sigmoid(Abs(cv_delta), 20, 10))

(***************************************************************************)
(* Exact rationals [n, d], d > 0, kept in lowest terms.                    *)
(***************************************************************************)
RECURSIVE GCD(_, _)
GCD(a, b) == IF b = 0 THEN a ELSE GCD(b, a % b)

Rat(n, d) ==
    LET g == GCD(Abs(n), d)
    IN  IF n = 0 THEN [n |-> 0, d |-> 1] ELSE [n |-> n \div g, d |-> d \div g]

RatAdd(a, b) ==
    LET g == GCD(a.d, b.d)
    IN  Rat(a.n * (b.d \div g) + b.n * (a.d \div g), (a.d \div g) * b.d)

\* a * (k / m) for small integers k, m
RatScale(a, k, m) ==
    LET g == GCD(Abs(a.n), m)
    IN  Rat(k * (a.n \div g), a.d * (m \div g))

\* a >= k / m and a <= k / m for small integers k, m
RatGe(a, k, m) == LET g == GCD(k, m) IN a.n * (m \div g) >= (k \div g) * a.d
RatLe(a, k, m) == LET g == GCD(k, m) IN a.n * (m \div g) <= (k \div g) * a.d

(***************************************************************************)
(* CONFIGURATION (lines 60-70).  Weights in twentieths.                    *)
(***************************************************************************)
W_WEIGHTED == 14
W_ML == 6

W_FLOOD == 5
W_EASEMENT == 4
W_COVERAGE == 4
W_OWNERSHIP == 3
W_AGE == 2
W_CV_DELTA == 2

\* the unit of the weights above: 1.0 = 20 twentieths
Unit == 20

\* _FEATURE_COLS (lines 79-89), by position
_FEATURE_COLS == 1..9

(***************************************************************************)
(* STAGE 2 - interaction terms (line 280), subscores in 0..Scale.          *)
(***************************************************************************)
\* FAULT: the two products are added without their 0.5 factors
_interaction_terms_unweighted(flood, easement, coverage, ownership) ==
    Rat(coverage * easement + flood * ownership, Scale * Scale)

_interaction_terms(flood, easement, coverage, ownership) ==
    Rat(coverage * easement + flood * ownership, 2 * Scale * Scale)

(***************************************************************************)
(* Weighted aggregation (lines 683-708).  available is a set of            *)
(* [name, w, s] entries: base weight w and subscore s.                     *)
(***************************************************************************)
RECURSIVE SumOver(_, _)
\* sum(F(e) for e in set), the records of set mapped by the operator below
SumOver(set, which) ==
    IF set = {} THEN 0
    ELSE LET e == CHOOSE x \in set : TRUE
         IN  (IF which = "w" THEN e.w ELSE e.w * e.s) + SumOver(set \ {e}, which)

total_weight(available) == SumOver(available, "w")

\* FAULT: the weights of the present factors are not renormalised
weighted_raw_unnormalised(available) ==
    Rat(SumOver(available, "ws"), Unit * Scale)

\* FAULT: a subscore is taken as a safety score, 1 - s
weighted_raw_inverted(available) ==
    LET total == total_weight(available)
    IN  IF total > 0
        THEN Rat(total * Scale - SumOver(available, "ws"), total * Scale)
        ELSE Rat(0, 1)

weighted_raw(available) ==
    LET total == total_weight(available)
    IN  IF total > 0
        THEN Rat(SumOver(available, "ws"), total * Scale)
        ELSE Rat(0, 1)

\* FAULT: line 708 without its max / min
weighted_score_unclamped(raw, interaction) ==
    RatAdd(raw, RatScale(interaction, 3, Unit))

\* max(0.0, min(100.0, (weighted_raw + 0.15 * interaction) * 100)), as a
\* fraction of the 100 points
weighted_score(raw, interaction) ==
    LET v == RatAdd(raw, RatScale(interaction, 3, Unit))
    IN  IF v.n < 0 THEN Rat(0, 1)
        ELSE IF v.n > v.d THEN Rat(1, 1)
        ELSE v

\* FAULT: W_WEIGHTED and W_ML exchanged
final_score_swapped(ws, ml_result) ==
    IF ~IsNone(ml_result)
    THEN RatAdd(RatScale(ws, W_ML, Unit),
                RatScale(Val(ml_result).ml_risk_probability, W_WEIGHTED, Unit))
    ELSE ws

\* lines 727-733
final_score(ws, ml_result) ==
    IF ~IsNone(ml_result)
    THEN RatAdd(RatScale(ws, W_WEIGHTED, Unit),
                RatScale(Val(ml_result).ml_risk_probability, W_ML, Unit))
    ELSE ws

\* FAULT: the "High" branch is missing
get_risk_tier_no_high(score) ==
    IF RatGe(score, 80, 100) THEN "Critical"
    ELSE IF RatGe(score, 40, 100) THEN "Moderate"
    ELSE IF RatGe(score, 20, 100) THEN "Low"
    ELSE "Minimal"

\* lines 845-865; score is a fraction of the 100 points
get_risk_tier(score) ==
    IF RatGe(score, 80, 100) THEN "Critical"
    ELSE IF RatGe(score, 60, 100) THEN "High"
    ELSE IF RatGe(score, 40, 100) THEN "Moderate"
    ELSE IF RatGe(score, 20, 100) THEN "Low"
    ELSE "Minimal"

\* lines 736-741; s is a subscore in 0..Scale
_severity(s) ==
    IF 10 * s >= 8 * Scale THEN "Critical"
    ELSE IF 10 * s >= 6 * Scale THEN "High"
    ELSE IF 10 * s >= 4 * Scale THEN "Moderate"
    ELSE IF 10 * s >= 2 * Scale THEN "Low"
    ELSE "Minimal"

\* FAULT: a missing input is reported as a zero score
_unavailable_factor_zero(label) ==
    [label |-> label, score |-> Some(0), weight |-> 0, severity |-> "Minimal"]

\* lines 754-763
_unavailable_factor(label) ==
    [label |-> label, score |-> None, weight |-> 0,
     severity |-> "Unavailable", unavailable |-> TRUE]

\* a present factor's entry; "score": round(f * 100, 1) is the subscore in
\* tenths of a percent
factor_entry(label, f, w) ==
    [label |-> label, score |-> Some(f * 10), weight |-> w, severity |-> _severity(f)]

(***************************************************************************)
(* STAGE 3 - model artifacts.                                              *)
(*                                                                         *)
(* An estimator object is [fitted, ver]: ver is the version of the         *)
(* training dataset it was fitted on (training is seeded, random_state =   *)
(* 42, so the dataset decides the fitted parameters).  A persisted file is *)
(* absent, corrupt (cannot be unpickled) or holds a fitted estimator.      *)
(***************************************************************************)
\* resolution of a predicted probability: p = k / ProbScale, k in 0..ProbScale
ProbScale == 2
Datasets == 0..ProbScale

Unfitted == [fitted |-> FALSE, ver |-> 0]
Fitted(d) == [fitted |-> TRUE, ver |-> d]

Absent == [st |-> "absent", ver |-> 0]
Corrupt == [st |-> "corrupt", ver |-> 0]
File(d) == [st |-> "ok", ver |-> d]
\* FAULT: a file that cannot be unpickled counts as missing
exists_readable(f) == f.st = "ok"

\* Path.exists()
exists(f) == f.st # "absent"

Globals(m, s, dm, ex) ==
    [_model |-> m, _scaler |-> s, _delay_model |-> dm, _shap_explainer |-> ex]

\* outcome of a function that may raise: the globals and the storage it
\* leaves, and the exception that escaped it ("none" if it returned)
Outcome(g, st, exc) == [g |-> g, st |-> st, exc |-> exc]

\* the steps of _train_models at which this run fails for a reason that
\* is not in the state (a fit error, an I/O error while persisting, a
\* SHAP incompatibility)
Faults == {"none", "fit_scaler", "fit_model", "fit_delay", "mkdir",
           "dump_gbm", "dump_lr", "dump_sc", "shap_init", "shap_values"}

\* lines 434-449; the explainer wraps the model it was built for.  With
\* fault "shap_values" the explainer is built but raises when asked for
\* Shapley values.
_init_shap(g, has_shap, fault) ==
    IF has_shap /\ ~IsNone(g._model)
    THEN IF fault = "shap_init"
         THEN [g EXCEPT !._shap_explainer = None]
         ELSE [g EXCEPT !._shap_explainer =
                  Some([ok |-> fault # "shap_values", ver |-> Val(g._model).ver])]
    ELSE g

\* FAULT: the load path does not load the delay model
load_cached_no_delay(g, st, has_shap, fault) ==
    IF st.gbm.st = "corrupt" \/ st.sc.st = "corrupt"
    THEN Outcome(g, st, "UnpicklingError")
    ELSE Outcome(_init_shap([g EXCEPT !._model = Some(Fitted(st.gbm.ver)),
                                      !._scaler = Some(Fitted(st.sc.ver))],
                            has_shap, fault),
                 st, "none")

\* lines 371-379: all three files exist
load_cached(g, st, has_shap, fault) ==
    IF st.gbm.st = "corrupt" THEN Outcome(g, st, "UnpicklingError")
    ELSE
    LET g1 == [g EXCEPT !._model = Some(Fitted(st.gbm.ver))]
    IN  IF st.lr.st = "corrupt" THEN Outcome(g1, st, "UnpicklingError")
        ELSE
        LET g2 == [g1 EXCEPT !._delay_model = Some(Fitted(st.lr.ver))]
        IN  IF st.sc.st = "corrupt" THEN Outcome(g2, st, "UnpicklingError")
            ELSE
            LET g3 == [g2 EXCEPT !._scaler = Some(Fitted(st.sc.ver))]
            IN  Outcome(_init_shap(g3, has_shap, fault), st, "none")

\* lines 408-417: persist the three estimators, then initialise SHAP.
\* joblib.dump writes in place: a failed dump leaves a partial file.
persist(g, st, has_shap, fault) ==
    IF fault = "mkdir" THEN Outcome(g, st, "OSError")
    ELSE IF fault = "dump_gbm"
    THEN Outcome(g, [st EXCEPT !.gbm = Corrupt], "OSError")
    ELSE
    LET st1 == [st EXCEPT !.gbm = File(Val(g._model).ver)]
    IN  IF fault = "dump_lr"
        THEN Outcome(g, [st1 EXCEPT !.lr = Corrupt], "OSError")
        ELSE
        LET st2 == [st1 EXCEPT !.lr = File(Val(g._delay_model).ver)]
        IN  IF fault = "dump_sc"
            THEN Outcome(g, [st2 EXCEPT !.sc = Corrupt], "OSError")
            ELSE
            LET st3 == [st2 EXCEPT !.sc = File(Val(g._scaler).ver)]
            IN  Outcome(_init_shap(g, has_shap, fault), st3, "none")

\* lines 382-406: read the CSV and fit the three estimators
fit_all(g, st, csvfile, has_shap, fault) ==
    IF IsNone(csvfile) THEN Outcome(g, st, "FileNotFoundError")
    ELSE
    LET d == Val(csvfile)
        g1 == [g EXCEPT !._scaler = Some(Unfitted)]
    IN  IF fault = "fit_scaler" THEN Outcome(g1, st, "ValueError")
        ELSE
        LET g2 == [g1 EXCEPT !._scaler = Some(Fitted(d))]
            g3 == [g2 EXCEPT !._model = Some(Unfitted)]
        IN  IF fault = "fit_model" THEN Outcome(g3, st, "ValueError")
            ELSE
            LET g4 == [g3 EXCEPT !._model = Some(Fitted(d))]
                g5 == [g4 EXCEPT !._delay_model = Some(Unfitted)]
            IN  IF fault = "fit_delay" THEN Outcome(g5, st, "ValueError")
                ELSE
                LET g6 == [g5 EXCEPT !._delay_model = Some(Fitted(d))]
                IN  persist(g6, st, has_shap, fault)

\* FAULT: a failure of the load or of the training is caught, not raised
_train_models_swallow(g, st, csvfile, has_sklearn, has_shap, fault) ==
    IF ~has_sklearn THEN Outcome(g, st, "none")
    ELSE IF exists(st.gbm) /\ exists(st.lr) /\ exists(st.sc)
    THEN Outcome(load_cached(g, st, has_shap, fault).g,
                 load_cached(g, st, has_shap, fault).st, "none")
    ELSE Outcome(fit_all(g, st, csvfile, has_shap, fault).g,
                 fit_all(g, st, csvfile, has_shap, fault).st, "none")

\* lines 362-417
_train_models(g, st, csvfile, has_sklearn, has_shap, fault) ==
    IF ~has_sklearn THEN Outcome(g, st, "none")
    ELSE IF exists(st.gbm) /\ exists(st.lr) /\ exists(st.sc)
    THEN load_cached(g, st, has_shap, fault)
    ELSE fit_all(g, st, csvfile, has_shap, fault)

(***************************************************************************)
(* Prediction.  A fitted estimator is a fixed function of the feature      *)
(* vector; which one is decided by the versions of the estimator and of    *)
(* the scaler.  The stand-in below is such a function, onto 0..ProbScale.  *)
(***************************************************************************)
RECURSIVE FeatureHash(_, _)
FeatureHash(fv, i) ==
    IF i = 0 THEN 0 ELSE (i + 1) * fv[i] + FeatureHash(fv, i - 1)

\* _scaler.transform(X): the features standardised with the scaler's statistics
transform(sc, fv) == [h |-> FeatureHash(fv, Len(fv)), sv |-> sc.ver]

\* estimator.predict_proba(X_scaled)[0, 1], as a rational
predict_proba(est, xs, salt) ==
    Rat((xs.h * salt + est.ver + 2 * (xs.sv - est.ver)) % (ProbScale + 1), ProbScale)

\* FAULT: a default prediction instead of None when the artifacts are missing
_ml_predict_default(g, feature_vec) ==
    [exc |-> "none",
     ret |-> Some([ml_risk_probability |-> Rat(1, 2),
                   feature_importance |-> [c \in _FEATURE_COLS |-> 0],
                   shap_values |-> << >>])]

\* FAULT: no try / except around shap_values (lines 489-496)
_ml_predict_shap_raises(g, feature_vec) ==
    IF IsNone(g._model) \/ IsNone(g._scaler) THEN [exc |-> "none", ret |-> None]
    ELSE IF ~Val(g._scaler).fitted \/ ~Val(g._model).fitted
    THEN [exc |-> "NotFittedError", ret |-> None]
    ELSE IF ~IsNone(g._shap_explainer) /\ ~Val(g._shap_explainer).ok
    THEN [exc |-> "Exception", ret |-> None]
    ELSE [exc |-> "none",
          ret |-> Some([ml_risk_probability |->
                            predict_proba(Val(g._model),
                                          transform(Val(g._scaler), feature_vec), 1),
                        feature_importance |->
                            [c \in _FEATURE_COLS |-> (c + Val(g._model).ver) % 3],
                        shap_values |->
                            IF ~IsNone(g._shap_explainer)
                            THEN [c \in _FEATURE_COLS |->
                                    ((feature_vec[c] + Val(g._shap_explainer).ver + c) % 3) - 1]
                            ELSE << >>])]

\* lines 479-501.  Returns [exc, ret]: ret is None or Some(dict).
_ml_predict(g, feature_vec) ==
    IF IsNone(g._model) \/ IsNone(g._scaler) THEN [exc |-> "none", ret |-> None]
    ELSE IF ~Val(g._scaler).fitted \/ ~Val(g._model).fitted
    THEN [exc |-> "NotFittedError", ret |-> None]
    ELSE
    LET X_scaled == transform(Val(g._scaler), feature_vec)
        prob == predict_proba(Val(g._model), X_scaled, 1)
        importance == [c \in _FEATURE_COLS |-> (c + Val(g._model).ver) % 3]
        shap_dict ==
            IF ~IsNone(g._shap_explainer) /\ Val(g._shap_explainer).ok
            THEN [c \in _FEATURE_COLS |->
                    ((feature_vec[c] + Val(g._shap_explainer).ver + c) % 3) - 1]
            ELSE << >>
    IN  [exc |-> "none",
         ret |-> Some([ml_risk_probability |-> prob,
                       feature_importance |-> importance,
                       shap_values |-> shap_dict])]

\* FAULT: a single cut at 0.5, no "Medium"
_delay_predict_two_labels(g, feature_vec) ==
    IF IsNone(g._delay_model) \/ IsNone(g._scaler) THEN [exc |-> "none", ret |-> None]
    ELSE IF ~Val(g._scaler).fitted \/ ~Val(g._delay_model).fitted
    THEN [exc |-> "NotFittedError", ret |-> None]
    ELSE [exc |-> "none",
          ret |-> Some([delay_probability |->
                            predict_proba(Val(g._delay_model),
                                          transform(Val(g._scaler), feature_vec), 3),
                        delay_likelihood |->
                            IF RatGe(predict_proba(Val(g._delay_model),
                                                   transform(Val(g._scaler), feature_vec), 3),
                                     5, 10)
                            THEN "High" ELSE "Low"])]

\* lines 532-546
_delay_predict(g, feature_vec) ==
    IF IsNone(g._delay_model) \/ IsNone(g._scaler) THEN [exc |-> "none", ret |-> None]
    ELSE IF ~Val(g._scaler).fitted \/ ~Val(g._delay_model).fitted
    THEN [exc |-> "NotFittedError", ret |-> None]
    ELSE
    LET X_scaled == transform(Val(g._scaler), feature_vec)
        prob == predict_proba(Val(g._delay_model), X_scaled, 3)
        label == IF RatGe(prob, 6, 10) THEN "High"
                 ELSE IF RatGe(prob, 3, 10) THEN "Medium"
                 ELSE "Low"
    IN  [exc |-> "none",
         ret |-> Some([delay_probability |-> prob, delay_likelihood |-> label])]

(***************************************************************************)
(* STAGE 6 - compute_risk_score (lines 644-842).                           *)
(*                                                                         *)
(* property_data is a record of optional values, None for a key that is    *)
(* omitted (for the five optional fields read without a default: omitted   *)
(* or null).  flood_zone is [t |-> "str", s, n] for a zone code s   *)
(* or [t |-> "num", s, n] for the legacy number n (hundredths).            *)
(***************************************************************************)
ZoneStr(code) == [t |-> "str", s |-> code, n |-> 0]
ZoneNum(val) == [t |-> "num", s |-> "", n |-> val]

\* lines 647-681: the inputs read from property_data and the subscores
factor_scores(property_data) ==
    LET fz == Get(property_data.flood_zone, ZoneStr("X"))
        inside_flood == IF fz.t = "num" THEN fz.n > 50
                        ELSE Get(property_data.inside_flood, FALSE)
        flood_zone == IF fz.t = "num"
                      THEN (IF fz.n > 50 THEN "AE" ELSE "X")
                      ELSE fz.s
        flood_dist == Get(property_data.flood_boundary_distance, 1000)
        easement_pct == Get(property_data.easement_encroachment, 0)
        coverage_pct == Get(property_data.lot_coverage_pct, 0)
        zoning_max == Get(property_data.zoning_max_coverage, 70)
        num_transfers == property_data.num_transfers_5yr
        avg_hold == property_data.avg_holding_period
        anomaly == property_data.ownership_anomaly_score
        prop_age == property_data.property_age
        cv_delta == property_data.cv_vs_recorded_area_delta
    IN  [inside_flood |-> inside_flood,
         flood_zone |-> flood_zone,
         flood_dist |-> flood_dist,
         easement_pct |-> easement_pct,
         coverage_pct |-> coverage_pct,
         f_flood |-> nl_flood_risk(inside_flood, flood_dist, flood_zone),
         f_easement |-> nl_easement_risk(easement_pct),
         f_coverage |-> nl_lot_coverage_risk(coverage_pct, zoning_max),
         f_ownership |->
            IF ~IsNone(num_transfers) /\ ~IsNone(avg_hold) /\ ~IsNone(anomaly)
            THEN Some(nl_ownership_risk(Val(num_transfers), Val(avg_hold), Val(anomaly)))
            ELSE None,
         f_age |-> IF ~IsNone(prop_age) THEN Some(nl_age_risk(Val(prop_age))) ELSE None,
         f_cv |-> IF ~IsNone(cv_delta)
                  THEN Some(nl_cv_discrepancy_risk(Val(cv_delta))) ELSE None]

\* lines 684-694: the factors that enter the weighted score; f as returned
\* by factor_scores
available_factors(f) ==
    {[name |-> "flood", w |-> W_FLOOD, s |-> f.f_flood],
     [name |-> "easement", w |-> W_EASEMENT, s |-> f.f_easement],
     [name |-> "coverage", w |-> W_COVERAGE, s |-> f.f_coverage]}
    \cup (IF ~IsNone(f.f_ownership)
          THEN {[name |-> "ownership", w |-> W_OWNERSHIP, s |-> Val(f.f_ownership)]}
          ELSE {})
    \cup (IF ~IsNone(f.f_age)
          THEN {[name |-> "age", w |-> W_AGE, s |-> Val(f.f_age)]} ELSE {})
    \cup (IF ~IsNone(f.f_cv)
          THEN {[name |-> "cv_delta", w |-> W_CV_DELTA, s |-> Val(f.f_cv)]} ELSE {})

\* FAULT: a missing holding period defaults to 0 like the other fields
feature_vector_zero_hold(property_data, f) ==
    <<IF f.inside_flood THEN 1 ELSE 0,
      f.flood_dist,
      f.easement_pct,
      f.coverage_pct,
      Get(property_data.property_age, 0),
      Get(property_data.num_transfers_5yr, 0),
      Get(property_data.avg_holding_period, 0),
      Get(property_data.ownership_anomaly_score, 0),
      Get(property_data.cv_vs_recorded_area_delta, 0)>>

\* lines 710-722: the ML feature vector, neutral defaults for missing fields
feature_vector(property_data, f) ==
    <<IF f.inside_flood THEN 1 ELSE 0,
      f.flood_dist,
      f.easement_pct,
      f.coverage_pct,
      Get(property_data.property_age, 0),
      Get(property_data.num_transfers_5yr, 0),
      Get(property_data.avg_holding_period, 100),
      Get(property_data.ownership_anomaly_score, 0),
      Get(property_data.cv_vs_recorded_area_delta, 0)>>

\* lines 765-829: the per-factor breakdown
build_factors_dict(f) ==
    [flood |-> factor_entry("Flood Zone Exposure", f.f_flood, W_FLOOD),
     easement |-> factor_entry("Easement Encroachment", f.f_easement, W_EASEMENT),
     coverage |-> factor_entry("Lot Coverage", f.f_coverage, W_COVERAGE),
     ownership |->
        IF ~IsNone(f.f_ownership)
        THEN factor_entry("Ownership Volatility", Val(f.f_ownership), W_OWNERSHIP)
        ELSE _unavailable_factor("Ownership Volatility"),
     age |->
        IF ~IsNone(f.f_age)
        THEN factor_entry("Property Age", Val(f.f_age), W_AGE)
        ELSE _unavailable_factor("Property Age"),
     cv_delta |->
        IF ~IsNone(f.f_cv)
        THEN factor_entry("Survey Discrepancy", Val(f.f_cv), W_CV_DELTA)
        ELSE _unavailable_factor("Survey Discrepancy")]

\* lines 696-708: weighted_raw, the interaction term and weighted_score
aggregate(f, available) ==
    [raw |-> weighted_raw(available),
     interaction |-> _interaction_terms(f.f_flood, f.f_easement, f.f_coverage,
                                        Get(f.f_ownership, 0))]

\* the locals of compute_risk_score that depend on property_data alone
analysed(property_data, f, available, agg) ==
    [inside_flood |-> f.inside_flood,
     flood_zone |-> f.flood_zone,
     available |-> available,
     total_weight |-> total_weight(available),
     weighted_raw |-> agg.raw,
     interaction |-> agg.interaction,
     weighted_score |-> weighted_score(agg.raw, agg.interaction),
     feature_vec |-> feature_vector(property_data, f),
     factors_dict |-> build_factors_dict(f)]

with_available(property_data, f, available) ==
    analysed(property_data, f, available, aggregate(f, available))

with_scores(property_data, f) ==
    with_available(property_data, f, available_factors(f))

\* lines 647-722 and 735-829: everything compute_risk_score derives from
\* property_data alone
analyse(property_data) == with_scores(property_data, factor_scores(property_data))

(***************************************************************************)
(* Inputs.                                                                 *)
(***************************************************************************)
PropertyData(fz, inside, dist, ease, cov, zmax, transfers, hold, anomaly, age, cv) ==
    [flood_zone |-> fz, inside_flood |-> inside, flood_boundary_distance |-> dist,
     easement_encroachment |-> ease, lot_coverage_pct |-> cov,
     zoning_max_coverage |-> zmax, num_transfers_5yr |-> transfers,
     avg_holding_period |-> hold, ownership_anomaly_score |-> anomaly,
     property_age |-> age, cv_vs_recorded_area_delta |-> cv]

\* <<flood_zone, inside_flood, flood_boundary_distance>>
FloodCases ==
    {<<Some(ZoneStr("AE")), Some(TRUE), Some(0)>>,
     <<Some(ZoneStr("X")), Some(FALSE), Some(50)>>,
     <<None, None, None>>}

\* <<num_transfers_5yr, avg_holding_period, ownership_anomaly_score>>
OwnershipCases ==
    {<<None, None, None>>,
     <<Some(3), Some(15), Some(60)>>,
     <<Some(3), None, Some(60)>>}

CoreInputs ==
    {PropertyData(f[1], f[2], f[3], Some(e), Some(c), Some(70), o[1], o[2], o[3], a, v) :
        f \in FloodCases, e \in {0, 30}, c \in {50, 75}, o \in OwnershipCases,
        a \in {None, Some(50)}, v \in {None, Some(20)}}

\* every factor at its extreme, for each combination of optional factors
ExtremeInputs ==
    {PropertyData(Some(ZoneStr("VE")), Some(TRUE), Some(0), Some(100), Some(100), Some(70),
                  o[1], o[2], o[3], a, v) :
        o \in {<<None, None, None>>, <<Some(9), Some(0), Some(100)>>},
        a \in {None, Some(200)}, v \in {None, Some(100)}}

\* legacy callers pass flood_zone as a number
LegacyInputs ==
    {PropertyData(Some(ZoneNum(z)), i, Some(50), None, Some(50), None,
                  None, None, None, None, None) :
        z \in {20, 50, 80}, i \in {None, Some(TRUE), Some(FALSE)}}

\* the scenario of the specification, with and without a zone code
ScenarioInputs ==
    {PropertyData(z, Some(TRUE), Some(0), Some(30), Some(75), Some(70),
                  Some(3), Some(15), Some(60), Some(50), Some(20)) :
        z \in {None, Some(ZoneStr("AE"))}}

\* scripts/test_pipeline.py lines 63-71: only the flood keys and
\* lot_coverage_pct (the other keys it passes are not read)
MinimalInputs ==
    {PropertyData(Some(ZoneStr(z)), Some(i), Some(d), None, Some(50), None,
                  None, None, None, None, None) :
        z \in {"AE", "X"}, i \in BOOLEAN, d \in {0, 250}}

\* POST /api/risk-score passes the request's JSON as it comes: numbers
\* outside their domain.  <<flood_boundary_distance, easement_encroachment,
\* lot_coverage_pct, zoning_max_coverage, ownership_anomaly_score, property_age>>
OutOfDomainCases ==
    {<<-20, 30, 75, 70, 60, 50>>, <<50, -50, 75, 70, 60, 50>>,
     <<50, 150, 75, 70, 60, 50>>, <<50, 30, 110, 70, 60, 50>>,
     <<50, 30, 75, 120, 60, 50>>, <<50, 30, 75, 70, 150, 50>>,
     <<50, 30, 75, 70, 60, -5>>}

OutOfDomainInputs ==
    {PropertyData(Some(ZoneStr("X")), Some(FALSE), Some(c[1]), Some(c[2]), Some(c[3]),
                  Some(c[4]), Some(3), Some(15), Some(c[5]), Some(c[6]), None) :
        c \in OutOfDomainCases}

\* the same requests with every number inside its domain
InDomainInputs ==
    {PropertyData(Some(ZoneStr("X")), Some(FALSE), Some(Max(0, c[1])),
                  Some(Max(0, Min(Scale, c[2]))), Some(Max(0, Min(Scale, c[3]))),
                  Some(Max(0, Min(Scale, c[4]))), Some(3), Some(15),
                  Some(Max(0, Min(Scale, c[5]))), Some(Max(0, c[6])), None) :
        c \in OutOfDomainCases}

Inputs ==
    CoreInputs \cup ExtremeInputs \cup LegacyInputs \cup ScenarioInputs \cup MinimalInputs
        \cup OutOfDomainInputs \cup InDomainInputs

\* analyse over the inputs of the model, evaluated once
analysis == [pd \in Inputs |-> analyse(pd)]

\* FAULT: the blend is chosen by the truth value of the probability, so a
\* prediction of 0.0 counts as no prediction
build_result_by_probability(a, ml, delay) ==
    IF ml.exc # "none" THEN [exc |-> ml.exc, ret |-> None, locals |-> Some(a)]
    ELSE IF delay.exc # "none"
    THEN [exc |-> delay.exc, ret |-> None, locals |-> Some(a)]
    ELSE [exc |-> "none",
          ret |-> Some([overall_score |-> final_score(a.weighted_score, ml.ret),
                        risk_tier |->
                            get_risk_tier(final_score(a.weighted_score, ml.ret)),
                        factors |-> a.factors_dict,
                        interactions |-> [value |-> a.interaction],
                        weighted_score |-> a.weighted_score,
                        ml |-> ml.ret,
                        delay |-> delay.ret,
                        scoring_method |->
                            IF ~IsNone(ml.ret) /\ Val(ml.ret).ml_risk_probability.n > 0
                            THEN "blended" ELSE "weighted_only"]),
          locals |-> Some(a)]

\* lines 727-733 and 831-842: blend and build the result; a as returned by
\* analyse, ml and delay as returned by _ml_predict and _delay_predict
build_result(a, ml, delay) ==
    IF ml.exc # "none" THEN [exc |-> ml.exc, ret |-> None, locals |-> Some(a)]
    ELSE IF delay.exc # "none"
    THEN [exc |-> delay.exc, ret |-> None, locals |-> Some(a)]
    ELSE [exc |-> "none",
          ret |-> Some([overall_score |-> final_score(a.weighted_score, ml.ret),
                        risk_tier |->
                            get_risk_tier(final_score(a.weighted_score, ml.ret)),
                        factors |-> a.factors_dict,
                        interactions |-> [value |-> a.interaction],
                        weighted_score |-> a.weighted_score,
                        ml |-> ml.ret,
                        delay |-> delay.ret,
                        scoring_method |->
                            IF ~IsNone(ml.ret) THEN "blended" ELSE "weighted_only"]),
          locals |-> Some(a)]

\* lines 724-725: the two predictions on the feature vector of a
predict_and_build(g, a) ==
    build_result(a, _ml_predict(g, a.feature_vec), _delay_predict(g, a.feature_vec))

\* lines 647-842: the scoring proper, with the artifacts g in place
score_property(g, property_data) == predict_and_build(g, analysis[property_data])

\* the call's outcome: t as returned by _train_models, r by score_property
call_outcome(t, r) ==
    [g |-> t.g, st |-> t.st, exc |-> r.exc, ret |-> r.ret, locals |-> r.locals]

after_training(t, property_data) ==
    IF t.exc # "none"
    THEN [g |-> t.g, st |-> t.st, exc |-> t.exc, ret |-> None, locals |-> None]
    ELSE call_outcome(t, score_property(t.g, property_data))

\* FAULT: every call loads or trains again, whatever _model holds
compute_risk_score_retrain(g, st, csvfile, has_sklearn, has_shap, fault, property_data) ==
    after_training(_train_models(g, st, csvfile, has_sklearn, has_shap, fault),
                   property_data)

\* lines 644-645: train or load on demand, then score
compute_risk_score(g, st, csvfile, has_sklearn, has_shap, fault, property_data) ==
    after_training(IF IsNone(g._model) /\ has_sklearn
                   THEN _train_models(g, st, csvfile, has_sklearn, has_shap, fault)
                   ELSE Outcome(g, st, "none"),
                   property_data)

(***************************************************************************)
(* The process.                                                            *)
(***************************************************************************)
FreshGlobals == Globals(None, None, None, None)
CurrentGlobals == Globals(_model, _scaler, _delay_model, _shap_explainer)

AllAbsent == [gbm |-> Absent, lr |-> Absent, sc |-> Absent]
AllPersisted(d) == [gbm |-> File(d), lr |-> File(d), sc |-> File(d)]

\* later: a compute_risk_score call that is not the first of its process
Call(op, exc, inp, ret, locals, later) ==
    [op |-> op, exc |-> exc, inp |-> inp, ret |-> ret, locals |-> locals,
     later |-> later]
NoCall == Call("none", "none", None, None, None, FALSE)

\* the request threads of the server, and who can be running _train_models:
\* the import of the module, or a thread through line 645
Threads == {"t1", "t2"}
Runners == {"import"} \cup Threads

NoTraining == [who \in Runners |-> "idle"]
IdleThread == [at |-> "idle", inp |-> None, ml |-> None, out |-> None]
NoThreads == [t \in Threads |-> IdleThread]

SetGlobals(g) ==
    /\ _model' = g._model
    /\ _scaler' = g._scaler
    /\ _delay_model' = g._delay_model
    /\ _shap_explainer' = g._shap_explainer

\* Before the module is imported.  The storage is empty or holds the three
\* files an earlier process persisted; the training CSV, when present, is
\* the dataset those files were trained on.
Init ==
    /\ HAS_SKLEARN \in BOOLEAN
    /\ HAS_SHAP \in BOOLEAN
    /\ \E d \in Datasets :
          /\ csv \in {None, Some(d)}
          /\ storage \in {AllAbsent, AllPersisted(d)}
    /\ pc = "unloaded"
    /\ _model = None /\ _scaler = None /\ _delay_model = None /\ _shap_explainer = None
    /\ call = NoCall
    /\ first = None
    /\ train = NoTraining
    /\ thr = NoThreads
    /\ log = << >>
    /\ summary = None

\* import services.risk_scoring: the module body, ending with the call of
\* _train_models() at line 871.  An exception there escapes the import: the
\* import system drops the module, and a later import runs the body again
\* with fresh globals.
ImportModule ==
    /\ pc \in {"unloaded", "import_failed"}
    /\ \E fault \in Faults :
       \E o \in {_train_models(FreshGlobals, storage, csv, HAS_SKLEARN, HAS_SHAP, fault)} :
              /\ SetGlobals(o.g)
              /\ storage' = o.st
              /\ pc' = IF o.exc = "none" THEN "ready" ELSE "import_failed"
              /\ call' = Call("import", o.exc, None, None, None, FALSE)
    /\ first' = None
    /\ UNCHANGED <<HAS_SKLEARN, HAS_SHAP, csv, train, thr, log, summary>>

\* a caller of the imported module: compute_risk_score(property_data),
\* property_data drawn from inputs
ComputeRiskScore(inputs) ==
    /\ pc = "ready"
    /\ \E property_data \in inputs, fault \in Faults :
       \E o \in {compute_risk_score(CurrentGlobals, storage, csv, HAS_SKLEARN,
                                     HAS_SHAP, fault, property_data)} :
              /\ SetGlobals(o.g)
              /\ storage' = o.st
              /\ call' = Call("compute", o.exc, Some(property_data), o.ret, o.locals,
                              ~IsNone(first))
              /\ first' = IF IsNone(first)
                          THEN Some([inp |-> Some(property_data), exc |-> o.exc,
                                     ret |-> o.ret])
                          ELSE first
    /\ UNCHANGED <<HAS_SKLEARN, HAS_SHAP, csv, pc, train, thr, log, summary>>

\* the process ends and a new one starts over the same storage
Restart ==
    /\ pc # "unloaded"
    /\ pc' = "unloaded"
    /\ SetGlobals(FreshGlobals)
    /\ call' = NoCall
    /\ first' = None
    /\ train' = NoTraining
    /\ thr' = NoThreads
    /\ log' = << >>
    /\ summary' = None
    /\ UNCHANGED <<HAS_SKLEARN, HAS_SHAP, csv, storage>>

\* the inputs of the calls that follow one another in one process
LifecycleInputs ==
    {p \in CoreInputs : /\ p.inside_flood = Some(TRUE)
                        /\ p.easement_encroachment = Some(30)
                        /\ p.lot_coverage_pct = Some(75)
                        /\ p.cv_vs_recorded_area_delta = None}

Score == ComputeRiskScore(LifecycleInputs)

Next == ImportModule \/ Score \/ Restart

Spec == Init /\ [][Next]_vars

\* the first call of each process, over all the inputs
ScoreOnce == IsNone(first) /\ ComputeRiskScore(Inputs)

ScoreNext == ImportModule \/ ScoreOnce \/ Restart

ScoreSpec == Init /\ [][ScoreNext]_vars

(***************************************************************************)
(* _train_models one statement at a time, and request threads.             *)
(*                                                                         *)
(* The statements of _train_models assign the globals one by one, so the   *)
(* globals pass through intermediate values while it runs.  A thread can   *)
(* call compute_risk_score once the import has bound the name (app.py line *)
(* 19); an import in progress holds the module's import lock.              *)
(***************************************************************************)
\* what a statement leaves: the statement to run next ("done" on return,
\* "raised" when an exception escapes), the globals, the storage
StepOutcome(at, g, st, exc) == [at |-> at, g |-> g, st |-> st, exc |-> exc]

\* joblib.load of file f into the global named by which (lines 373-375)
load_step(g, st, f, which, next) ==
    IF f.st = "corrupt" THEN StepOutcome("raised", g, st, "UnpicklingError")
    ELSE StepOutcome(next, [g EXCEPT ![which] = Some(Fitted(f.ver))], st, "none")

\* joblib.dump of the global named by which into the file named by file
\* (lines 409-411); a failed dump leaves a partial file
dump_step(g, st, file, which, fails, next) ==
    IF fails THEN StepOutcome("raised", g, [st EXCEPT ![file] = Corrupt], "OSError")
    ELSE StepOutcome(next, g, [st EXCEPT ![file] = File(Val(g[which]).ver)], "none")

\* estimator.fit on the global named by which (lines 394, 403, 406)
fit_step(g, st, csvfile, which, fails, next) ==
    IF fails THEN StepOutcome("raised", g, st, "ValueError")
    ELSE StepOutcome(next, [g EXCEPT ![which] = Some(Fitted(Val(csvfile)))], st, "none")

\* the statement at label at of _train_models (lines 362-417)
train_step(at, g, st, csvfile, has_sklearn, has_shap, fault) ==
    CASE at = "start" ->
            IF ~has_sklearn THEN StepOutcome("done", g, st, "none")
            ELSE IF exists(st.gbm) /\ exists(st.lr) /\ exists(st.sc)
            THEN StepOutcome("load_gbm", g, st, "none")
            ELSE StepOutcome("read_csv", g, st, "none")
      [] at = "load_gbm" -> load_step(g, st, st.gbm, "_model", "load_lr")
      [] at = "load_lr" -> load_step(g, st, st.lr, "_delay_model", "load_sc")
      [] at = "load_sc" -> load_step(g, st, st.sc, "_scaler", "init_shap")
      [] at = "read_csv" ->
            IF IsNone(csvfile) THEN StepOutcome("raised", g, st, "FileNotFoundError")
            ELSE StepOutcome("new_scaler", g, st, "none")
      [] at = "new_scaler" ->
            StepOutcome("fit_scaler", [g EXCEPT !._scaler = Some(Unfitted)], st, "none")
      [] at = "fit_scaler" ->
            fit_step(g, st, csvfile, "_scaler", fault = "fit_scaler", "new_model")
      [] at = "new_model" ->
            StepOutcome("fit_model", [g EXCEPT !._model = Some(Unfitted)], st, "none")
      [] at = "fit_model" ->
            fit_step(g, st, csvfile, "_model", fault = "fit_model", "new_delay")
      [] at = "new_delay" ->
            StepOutcome("fit_delay", [g EXCEPT !._delay_model = Some(Unfitted)], st, "none")
      [] at = "fit_delay" ->
            fit_step(g, st, csvfile, "_delay_model", fault = "fit_delay", "mkdir")
      [] at = "mkdir" ->
            IF fault = "mkdir" THEN StepOutcome("raised", g, st, "OSError")
            ELSE StepOutcome("dump_gbm", g, st, "none")
      [] at = "dump_gbm" -> dump_step(g, st, "gbm", "_model", fault = "dump_gbm", "dump_lr")
      [] at = "dump_lr" ->
            dump_step(g, st, "lr", "_delay_model", fault = "dump_lr", "dump_sc")
      [] at = "dump_sc" -> dump_step(g, st, "sc", "_scaler", fault = "dump_sc", "init_shap")
      [] at = "init_shap" -> StepOutcome("done", _init_shap(g, has_shap, fault), st, "none")

\* the import statement reaches the module body: fresh globals, then the
\* call of _train_models() at line 871.  call.inp keeps the storage found.
BeginImport ==
    /\ pc \in {"unloaded", "import_failed"}
    /\ pc' = "importing"
    /\ SetGlobals(FreshGlobals)
    /\ train' = [NoTraining EXCEPT !["import"] = "start"]
    /\ thr' = NoThreads
    /\ log' = << >>
    /\ call' = Call("importing", "none", Some(storage), None, None, FALSE)
    /\ first' = None
    /\ UNCHANGED <<HAS_SKLEARN, HAS_SHAP, csv, storage, summary>>

\* what the end of a _train_models run means to its runner
Ended(at) == at \in {"done", "raised"}

\* runner who executes its next statement of _train_models
TrainStep(who) ==
    /\ train[who] # "idle"
    /\ \E fault \in Faults :
       \E o \in {train_step(train[who], CurrentGlobals, storage, csv, HAS_SKLEARN,
                            HAS_SHAP, fault)} :
          /\ SetGlobals(o.g)
          /\ storage' = o.st
          /\ train' = [train EXCEPT ![who] = IF Ended(o.at) THEN "idle" ELSE o.at]
          /\ IF who = "import"
             THEN /\ log' = Append(log, train[who])
                  /\ pc' = IF o.at = "done" THEN "ready"
                           ELSE IF o.at = "raised" THEN "import_failed" ELSE pc
                  /\ call' = IF Ended(o.at)
                             THEN Call("import", o.exc, call.inp, None, None, FALSE)
                             ELSE call
                  /\ thr' = thr
             ELSE /\ UNCHANGED <<log, pc, call>>
                  /\ thr' = [thr EXCEPT ![who] =
                               IF o.at = "done" THEN [@ EXCEPT !.at = "ml"]
                               ELSE IF o.at = "raised"
                               THEN [@ EXCEPT !.at = "idle",
                                              !.out = Some([exc |-> o.exc, ret |-> None])]
                               ELSE @]
    /\ UNCHANGED <<HAS_SKLEARN, HAS_SHAP, csv, first, summary>>

\* FAULT: the function is reachable while the module body still runs
ModuleInitialising == pc \in {"ready", "importing"}

\* compute_risk_score is bound in the caller: the import has completed
ModuleImported == pc = "ready"

\* the inputs of the request threads
ThreadInputs ==
    {p \in LifecycleInputs : /\ p.property_age = Some(50)
                             /\ p.avg_holding_period \in {None, Some(15)}}

\* thread t calls compute_risk_score: lines 644-645
ThreadCall(t) ==
    /\ ModuleImported
    /\ thr[t].at = "idle"
    /\ \E property_data \in ThreadInputs :
          IF IsNone(_model) /\ HAS_SKLEARN
          THEN /\ thr' = [thr EXCEPT ![t] = [at |-> "training", inp |-> Some(property_data),
                                            ml |-> None, out |-> None]]
               /\ train' = [train EXCEPT ![t] = "start"]
          ELSE /\ thr' = [thr EXCEPT ![t] = [at |-> "ml", inp |-> Some(property_data),
                                            ml |-> None, out |-> None]]
               /\ train' = train
    /\ UNCHANGED <<HAS_SKLEARN, HAS_SHAP, csv, storage, pc, _model, _scaler, _delay_model,
                   _shap_explainer, call, first, log, summary>>

\* thread t at line 724: _ml_predict on the globals as they are now
ThreadPredict(t) ==
    /\ thr[t].at = "ml"
    /\ \E r \in {_ml_predict(CurrentGlobals, analysis[Val(thr[t].inp)].feature_vec)} :
          thr' = [thr EXCEPT ![t] =
                    IF r.exc # "none"
                    THEN [@ EXCEPT !.at = "idle", !.out = Some([exc |-> r.exc, ret |-> None])]
                    ELSE [@ EXCEPT !.at = "delay", !.ml = Some(r)]]
    /\ UNCHANGED <<HAS_SKLEARN, HAS_SHAP, csv, storage, pc, _model, _scaler, _delay_model,
                   _shap_explainer, call, first, train, log, summary>>

\* thread t at lines 725-842: _delay_predict on the globals as they are now,
\* then the blend and the return
ThreadReturn(t) ==
    /\ thr[t].at = "delay"
    /\ \E r \in {build_result(analysis[Val(thr[t].inp)], Val(thr[t].ml),
                              _delay_predict(CurrentGlobals,
                                             analysis[Val(thr[t].inp)].feature_vec))} :
          thr' = [thr EXCEPT ![t] =
                    [@ EXCEPT !.at = "idle", !.ml = None,
                              !.out = Some([exc |-> r.exc, ret |-> r.ret])]]
    /\ UNCHANGED <<HAS_SKLEARN, HAS_SHAP, csv, storage, pc, _model, _scaler, _delay_model,
                   _shap_explainer, call, first, train, log, summary>>

Train == \E who \in Runners : TrainStep(who)
Request == \E t \in Threads : ThreadCall(t)
Predict == \E t \in Threads : ThreadPredict(t)
Return == \E t \in Threads : ThreadReturn(t)

StepNext == BeginImport \/ Train \/ Request \/ Predict \/ Return \/ Restart

StepSpec == Init /\ [][StepNext]_vars

(***************************************************************************)
(* The explanation generator (backend/services/ai_summary.py).  A text is  *)
(* modelled by what it states about each factor: None, or the value it     *)
(* gives.  The reply of the LLM is not text of this program.               *)
(***************************************************************************)
FactorKeys == {"flood", "easement", "coverage", "ownership", "age", "cv_delta"}

\* lines 109-114: the prompt's line for one factor
prompt_factor_line(factor) ==
    IF "unavailable" \in DOMAIN factor /\ factor.unavailable
    THEN [text |-> "DATA UNAVAILABLE", score |-> None, weight |-> None]
    ELSE [text |-> "score", score |-> Some(Get(factor.score, 0)),
          weight |-> Some(factor.weight)]

\* lines 77-195
_build_prompt(risk_data) ==
    [overall |-> risk_data.overall_score,
     tier |-> risk_data.risk_tier,
     scoring_method |-> risk_data.scoring_method,
     factors |-> [k \in DOMAIN risk_data.factors |->
                     prompt_factor_line(risk_data.factors[k])],
     shap |-> IF ~IsNone(risk_data.ml) /\ Val(risk_data.ml).shap_values # << >>
              THEN Some(Val(risk_data.ml).shap_values) ELSE None,
     delay |-> risk_data.delay]

\* lines 198-243: a fixed text around the score and the tier
_mock_summary(risk_data) ==
    [generated_by |-> "mock",
     score |-> Some(risk_data.overall_score),
     tier |-> Some(risk_data.risk_tier),
     states |-> [k \in FactorKeys |->
                    CASE k = "coverage" -> Some("68% of 70% allowed")
                      [] k = "flood" -> Some("partial flood zone exposure")
                      [] k = "ownership" -> Some("two transfers in the last 5 years")
                      [] OTHER -> None],
     fallback |-> FALSE]

\* lines 23-74.  api_key: Config.GROQ_API_KEY is set; api: the outcome of
\* the chat completion, "ok" or "error".  Returns the prompt sent, if any,
\* and the summary.
generate_risk_summary(risk_data, api_key, api) ==
    IF ~api_key THEN [prompt |-> None, summary |-> _mock_summary(risk_data)]
    ELSE IF api = "error"
    THEN [prompt |-> Some(_build_prompt(risk_data)),
          summary |-> [_mock_summary(risk_data) EXCEPT !.fallback = TRUE]]
    ELSE [prompt |-> Some(_build_prompt(risk_data)),
          summary |-> [generated_by |-> "groq", score |-> None, tier |-> None,
                       states |-> [k \in FactorKeys |-> None], fallback |-> FALSE]]

\* app.py line 196: the summary of the result just computed
Summarise ==
    /\ pc = "ready"
    /\ call.op = "compute" /\ call.exc = "none"
    /\ \E api_key \in BOOLEAN, api \in {"ok", "error"} :
          summary' = Some(generate_risk_summary(Val(call.ret), api_key, api))
    /\ UNCHANGED <<HAS_SKLEARN, HAS_SHAP, csv, storage, pc, _model, _scaler, _delay_model,
                   _shap_explainer, call, first, train, thr, log>>

SummaryNext == ImportModule \/ ScoreOnce \/ Summarise \/ Restart

SummarySpec == Init /\ [][SummaryNext]_vars

(***************************************************************************)
(* The factor transforms called on their own.                              *)
(***************************************************************************)
\* coverage ratios and zoning maxima, in hundredths
CoverageRatios == 0..110
ZoningMaxima == {0, 10, 30, 50, 70, 85, 100}

\* nl_lot_coverage_risk(coverage_ratio, zoning_max) of the imported module
LotCoverageRisk ==
    /\ pc = "ready"
    /\ call.op = "import"
    /\ \E coverage_ratio \in CoverageRatios, zoning_max \in ZoningMaxima :
          call' = Call("nl_lot_coverage_risk", "none",
                       Some(<<coverage_ratio, zoning_max>>),
                       Some(nl_lot_coverage_risk(coverage_ratio, zoning_max)),
                       None, FALSE)
    /\ UNCHANGED <<HAS_SKLEARN, HAS_SHAP, csv, storage, pc, _model, _scaler, _delay_model,
                   _shap_explainer, first, train, thr, log, summary>>

TransformNext == ImportModule \/ LotCoverageRisk \/ Restart

TransformSpec == Init /\ [][TransformNext]_vars

(***************************************************************************)
(* Properties.                                                             *)
(***************************************************************************)
\* the last operation was a compute_risk_score call that returned
Returned == call.op = "compute" /\ call.exc = "none"
Result == Val(call.ret)
Locals == Val(call.locals)
Input == Val(call.inp)
\* classifier and scaler are in place
ArtifactsAvailable == ~IsNone(_model) /\ ~IsNone(_scaler)

OwnershipGiven(pd) ==
    /\ ~IsNone(pd.num_transfers_5yr)
    /\ ~IsNone(pd.avg_holding_period)
    /\ ~IsNone(pd.ownership_anomaly_score)
AgeGiven(pd) == ~IsNone(pd.property_age)
CvGiven(pd) == ~IsNone(pd.cv_vs_recorded_area_delta)

\* a <= b for rationals over denominators with a small common multiple
RatLeq(a, b) ==
    LET g == GCD(a.d, b.d) IN a.n * (b.d \div g) <= b.n * (a.d \div g)

\* C1: no failure while loading or training the artifacts lets an exception
\* escape the engine, neither at module initialisation nor from
\* compute_risk_score.  The code has no handler around _train_models (lines
\* 871 and 645), and this is violated: with scikit-learn installed, no
\* persisted artifacts and no training CSV, the import itself raises.
C1_NoExceptionEscapes == call.exc = "none"

\* C2: every returned result has overall_score in [0, 100], blended or
\* weighted_only; the blend stays in range for every ML probability of the
\* grid, not only the predicted one.
C2_OverallScoreInRange ==
    Returned =>
        /\ Result.overall_score.d > 0
        /\ 0 <= Result.overall_score.n
        /\ Result.overall_score.n <= Result.overall_score.d
        /\ \A k \in 0..ProbScale :
              LET v == final_score(Result.weighted_score,
                                   Some([ml_risk_probability |-> Rat(k, ProbScale)]))
              IN  0 <= v.n /\ v.n <= v.d

\* a blended result whose analytic score hit the upper clamp
C2_Witness ==
    /\ Returned
    /\ Result.scoring_method = "blended"
    /\ Result.weighted_score = Rat(1, 1)
    /\ RatAdd(Locals.weighted_raw, RatScale(Locals.interaction, 3, Unit)).n >
       RatAdd(Locals.weighted_raw, RatScale(Locals.interaction, 3, Unit)).d

\* C3: with the ML artifacts unavailable at scoring time, compute_risk_score
\* returns a result with scoring_method "weighted_only", ml and delay null
\* and overall_score equal to weighted_score.
C3_FallbackWhenUnavailable ==
    (call.op = "compute" /\ ~ArtifactsAvailable) =>
        /\ call.exc = "none"
        /\ ~IsNone(call.ret)
        /\ Result.scoring_method = "weighted_only"
        /\ IsNone(Result.ml)
        /\ IsNone(Result.delay)
        /\ Result.overall_score = Result.weighted_score

\* a call served without scikit-learn, on an input with every optional factor
C3_Witness ==
    /\ Returned
    /\ ~HAS_SKLEARN
    /\ ~ArtifactsAvailable
    /\ OwnershipGiven(Input) /\ AgeGiven(Input) /\ CvGiven(Input)

\* C4: scoring_method is "blended" exactly when classifier and scaler are
\* available at scoring time, exactly when the ml block is non-null; it is
\* "weighted_only" in every other case.
C4_BlendedIffArtifacts ==
    Returned =>
        /\ (Result.scoring_method = "blended") <=> ArtifactsAvailable
        /\ ArtifactsAvailable <=> ~IsNone(Result.ml)
        /\ Result.scoring_method \in {"blended", "weighted_only"}

\* a blended result whose predicted probability is 0
C4_Witness ==
    /\ Returned
    /\ ArtifactsAvailable
    /\ Result.scoring_method = "blended"
    /\ Val(Result.ml).ml_risk_probability = Rat(0, 1)

TierOf(score) ==
    <<"Minimal", "Low", "Moderate", "High", "Critical">>
        [1 + Cardinality({k \in 1..4 : 5 * score.n >= k * score.d})]

\* C6: risk_tier is a function of overall_score alone with thresholds >= 80
\* Critical, >= 60 High, >= 40 Moderate, >= 20 Low, else Minimal: the tier
\* counts the thresholds reached, so a higher score never has a lower tier.
C6_TierFromScore == Returned => Result.risk_tier = TierOf(Result.overall_score)

\* a blended result in the "High" band
C6_Witness ==
    /\ Returned
    /\ Result.scoring_method = "blended"
    /\ Result.risk_tier = "High"
    /\ 5 * Result.overall_score.n >= 3 * Result.overall_score.d
    /\ 5 * Result.overall_score.n < 4 * Result.overall_score.d

IsSentinel(e) ==
    /\ "unavailable" \in DOMAIN e
    /\ IsNone(e.score)
    /\ e.weight = 0
    /\ e.severity = "Unavailable"
    /\ e.unavailable = TRUE

\* a scored entry: a score, a positive weight, a severity band, no flag
IsScored(e) ==
    /\ "unavailable" \notin DOMAIN e
    /\ ~IsNone(e.score)
    /\ e.weight > 0
    /\ e.severity \in {"Minimal", "Low", "Moderate", "High", "Critical"}

\* C7: factors has exactly the entries flood, easement, coverage, ownership,
\* age, cv_delta; an optional factor's entry is the sentinel exactly when its
\* input is unavailable (ownership: any of its three fields missing) and a
\* scored entry otherwise; flood, easement and coverage are never sentinels.
C7_FactorEntries ==
    Returned =>
        /\ DOMAIN Result.factors =
              {"flood", "easement", "coverage", "ownership", "age", "cv_delta"}
        /\ IsScored(Result.factors.flood)
        /\ IsScored(Result.factors.easement)
        /\ IsScored(Result.factors.coverage)
        /\ IF OwnershipGiven(Input) THEN IsScored(Result.factors.ownership)
                                    ELSE IsSentinel(Result.factors.ownership)
        /\ IF AgeGiven(Input) THEN IsScored(Result.factors.age)
                              ELSE IsSentinel(Result.factors.age)
        /\ IF CvGiven(Input) THEN IsScored(Result.factors.cv_delta)
                             ELSE IsSentinel(Result.factors.cv_delta)

\* ownership unavailable because one of its three fields is missing, next to
\* a scored age and a sentinel cv_delta
C7_Witness ==
    /\ Returned
    /\ ~IsNone(Input.num_transfers_5yr)
    /\ IsNone(Input.avg_holding_period)
    /\ IsSentinel(Result.factors.ownership)
    /\ IsScored(Result.factors.age)
    /\ IsSentinel(Result.factors.cv_delta)

\* the base weights of the factors present for an input, in twentieths
PresentWeights(pd) ==
    [flood |-> 5, easement |-> 4, coverage |-> 4,
     ownership |-> IF OwnershipGiven(pd) THEN 3 ELSE 0,
     age |-> IF AgeGiven(pd) THEN 2 ELSE 0,
     cv_delta |-> IF CvGiven(pd) THEN 2 ELSE 0]

PresentTotal(pd) ==
    PresentWeights(pd).flood + PresentWeights(pd).easement + PresentWeights(pd).coverage
    + PresentWeights(pd).ownership + PresentWeights(pd).age + PresentWeights(pd).cv_delta

\* the reported score of a factor, in tenths of a point; 0 for a sentinel
ReportedScore(e) == Get(e.score, 0)

\* sum of base weight * reported score over the present factors
PresentWeightedSum(pd, factors) ==
    PresentWeights(pd).flood * ReportedScore(factors.flood)
    + PresentWeights(pd).easement * ReportedScore(factors.easement)
    + PresentWeights(pd).coverage * ReportedScore(factors.coverage)
    + PresentWeights(pd).ownership * ReportedScore(factors.ownership)
    + PresentWeights(pd).age * ReportedScore(factors.age)
    + PresentWeights(pd).cv_delta * ReportedScore(factors.cv_delta)

\* C8: in weighted_raw each present factor's weight is its base weight over
\* the sum of the base weights of the present factors, absent factors
\* contribute nothing, and that sum is never 0; with the three optional
\* factors absent the weights are 0.25/0.65, 0.20/0.65 and 0.20/0.65.
C8_RenormalisedWeights ==
    Returned =>
        /\ Locals.total_weight = PresentTotal(Input)
        /\ Locals.total_weight > 0
        /\ Locals.weighted_raw.n * (PresentTotal(Input) * 10 * Scale) =
              Locals.weighted_raw.d * PresentWeightedSum(Input, Result.factors)
        /\ (~OwnershipGiven(Input) /\ ~AgeGiven(Input) /\ ~CvGiven(Input)) =>
              /\ Locals.total_weight = 13
              /\ Locals.weighted_raw.n * (13 * 10 * Scale) =
                    Locals.weighted_raw.d *
                        (5 * ReportedScore(Result.factors.flood)
                         + 4 * ReportedScore(Result.factors.easement)
                         + 4 * ReportedScore(Result.factors.coverage))

\* only ownership of the optional factors present: the weights sum to 16 / 20
C8_Witness ==
    /\ Returned
    /\ OwnershipGiven(Input) /\ ~AgeGiven(Input) /\ ~CvGiven(Input)
    /\ Locals.total_weight = 16
    /\ Locals.weighted_raw.n > 0

\* the subscore of the factor called name in available, 0 when it is absent
SubscoreOf(available, name) ==
    IF \E e \in available : e.name = name
    THEN (CHOOSE e \in available : e.name = name).s
    ELSE 0

\* weighted_score of the factors in available (lines 696-708)
WeightedScoreOf(available) ==
    weighted_score(weighted_raw(available),
                   _interaction_terms(SubscoreOf(available, "flood"),
                                      SubscoreOf(available, "easement"),
                                      SubscoreOf(available, "coverage"),
                                      SubscoreOf(available, "ownership")))

\* available with the subscore of entry e changed to s
WithSubscore(available, e, s) == (available \ {e}) \cup {[e EXCEPT !.s = s]}

\* the subscores tried in place of s
Steps(s) == {0, s - 10, s - 1, s + 1, s + 10, Scale} \cap (0..Scale)

\* C9: with the set of present factors fixed, raising a single subscore and
\* holding the others never lowers weighted_score (and lowering one never
\* raises it).
C9_Monotone ==
    Returned =>
        /\ WeightedScoreOf(Locals.available) = Result.weighted_score
        /\ \A e \in Locals.available : \A s \in Steps(e.s) :
              /\ s >= e.s =>
                    RatLeq(Result.weighted_score,
                           WeightedScoreOf(WithSubscore(Locals.available, e, s)))
              /\ s <= e.s =>
                    RatLeq(WeightedScoreOf(WithSubscore(Locals.available, e, s)),
                           Result.weighted_score)

\* all six factors present, and raising the ownership subscore strictly
\* raises weighted_score
C9_Witness ==
    /\ Returned
    /\ Cardinality(Locals.available) = 6
    /\ \E e \in Locals.available :
          /\ e.name = "ownership"
          /\ e.s < Scale
          /\ ~RatLeq(WeightedScoreOf(WithSubscore(Locals.available, e, Scale)),
                     Result.weighted_score)

C11_ScoresInUnitInterval ==
    Returned =>
        \A k \in DOMAIN Result.factors :
            \/ IsNone(Result.factors[k].score)
            \/ (0 <= Val(Result.factors[k].score) /\ 10 * Val(Result.factors[k].score) <= 100)

\* C12: once a load or training has set the artifacts, no later
\* compute_risk_score call reloads, retrains or reassigns any of them, nor
\* writes the persisted files.
C12_ArtifactsReadOnly ==
    [][(pc = "ready" /\ call'.op = "compute" /\ ~IsNone(_model)) =>
            /\ _model' = _model
            /\ _scaler' = _scaler
            /\ _delay_model' = _delay_model
            /\ _shap_explainer' = _shap_explainer
            /\ storage' = storage]_vars

\* a second call served by artifacts that the import trained and persisted
C12_Witness ==
    /\ call.op = "compute"
    /\ call.later
    /\ ~IsNone(_model) /\ Val(_model).fitted
    /\ ~IsNone(_scaler) /\ ~IsNone(_delay_model) /\ ~IsNone(_shap_explainer)
    /\ exists(storage.gbm)

\* the statement-wise run of the import ends as _train_models does as a whole
TrainStepsAgree ==
    (call.op = "import" /\ thr = NoThreads) =>
        \E fault \in Faults :
            _train_models(FreshGlobals, Val(call.inp), csv, HAS_SKLEARN, HAS_SHAP, fault)
                = Outcome(CurrentGlobals, storage, call.exc)

\* no classifier, no scaler, no delay model
ArtifactsNone == IsNone(_model) /\ IsNone(_scaler) /\ IsNone(_delay_model)
\* the three of them set and fitted
ArtifactsComplete ==
    /\ ~IsNone(_model) /\ Val(_model).fitted
    /\ ~IsNone(_scaler) /\ Val(_scaler).fitted
    /\ ~IsNone(_delay_model) /\ Val(_delay_model).fitted

AttributionBroken ==
    /\ ArtifactsAvailable
    /\ (IsNone(_shap_explainer) \/ ~Val(_shap_explainer).ok)

\* the globals with an explainer that works
WithWorkingExplainer ==
    [CurrentGlobals EXCEPT !._shap_explainer = Some([ok |-> TRUE, ver |-> Val(_model).ver])]

\* C14: an attribution failure drops only the attribution block: the call
\* returns, scoring_method is "blended", ml carries the probability and the
\* feature importances with an empty attribution map, and overall_score is
\* what it is with a working explainer.
C14_AttributionFailure ==
    (call.op = "compute" /\ AttributionBroken) =>
        /\ call.exc = "none"
        /\ Result.scoring_method = "blended"
        /\ ~IsNone(Result.ml)
        /\ Val(Result.ml).shap_values = << >>
        /\ DOMAIN Val(Result.ml).feature_importance = _FEATURE_COLS
        /\ LET working == Val(score_property(WithWorkingExplainer, Input).ret)
           IN  /\ Val(working.ml).shap_values # << >>
               /\ Val(Result.ml).ml_risk_probability = Val(working.ml).ml_risk_probability
               /\ Val(Result.ml).feature_importance = Val(working.ml).feature_importance
               /\ Result.overall_score = working.overall_score

\* a call whose explainer exists and raises on shap_values
C14_Witness ==
    /\ Returned
    /\ ArtifactsAvailable
    /\ ~IsNone(_shap_explainer) /\ ~Val(_shap_explainer).ok
    /\ Val(Result.ml).shap_values = << >>

\* C15: the delay block is present only when the delay model and the scaler
\* are available; then delay_likelihood is "High" for delay_probability >=
\* 0.6, "Medium" for >= 0.3, else "Low".
C15_DelayBlock ==
    Returned =>
        /\ ~IsNone(Result.delay) <=> (~IsNone(_delay_model) /\ ~IsNone(_scaler))
        /\ ~IsNone(Result.delay) =>
              LET prob == Val(Result.delay).delay_probability
              IN  /\ 0 <= prob.n /\ prob.n <= prob.d
                  /\ Val(Result.delay).delay_likelihood =
                        IF 10 * prob.n >= 6 * prob.d THEN "High"
                        ELSE IF 10 * prob.n >= 3 * prob.d THEN "Medium"
                        ELSE "Low"

\* a delay probability in the "Medium" band
C15_Witness ==
    /\ Returned
    /\ ~IsNone(Result.delay)
    /\ Val(Result.delay).delay_likelihood = "Medium"
    /\ 10 * Val(Result.delay).delay_probability.n >= 3 * Val(Result.delay).delay_probability.d

\* C16: neither the prompt nor the summary of generate_risk_summary states a
\* value for a factor that the result marks unavailable.  The mock summary
\* is a fixed text that speaks of two ownership transfers whatever the
\* result holds (ai_summary.py lines 204-208), and this is violated.
C16_NothingStatedWhenUnavailable ==
    ~IsNone(summary) =>
        \A k \in {"ownership", "age", "cv_delta"} :
            ("unavailable" \in DOMAIN Result.factors[k]) =>
                /\ IsNone(Val(summary).summary.states[k])
                /\ ~IsNone(Val(summary).prompt) =>
                      IsNone(Val(Val(summary).prompt).factors[k].score)

\* C17: for inside_flood = True, distance 0, easement 0.30, coverage 0.75,
\* zoning_max 0.70, age 50, transfers 3, avg_hold 1.5, anomaly 0.6, cv_delta
\* 0.20: the flood subscore is 1.0 and Critical, the coverage subscore is
\* above 0.5, scoring_method is "blended" with artifacts and "weighted_only"
\* without, and overall_score >= 60 (High or Critical) for every ML
\* probability.
C17_Scenario ==
    (Returned /\ Input \in ScenarioInputs) =>
        /\ Result.factors.flood.score = Some(10 * Scale)
        /\ Result.factors.flood.severity = "Critical"
        /\ Val(Result.factors.coverage.score) > 5 * Scale
        /\ Result.scoring_method =
              IF ArtifactsAvailable THEN "blended" ELSE "weighted_only"
        /\ 5 * Result.overall_score.n >= 3 * Result.overall_score.d
        /\ Result.risk_tier \in {"High", "Critical"}
        /\ \A k \in 0..ProbScale :
              LET v == final_score(Result.weighted_score,
                                   Some([ml_risk_probability |-> Rat(k, ProbScale)]))
              IN  5 * v.n >= 3 * v.d

\* the scenario scored with the lowest ML probability, 0
C17_Witness ==
    /\ Returned
    /\ Input \in ScenarioInputs
    /\ IsNone(Input.flood_zone)
    /\ Result.scoring_method = "blended"
    /\ Val(Result.ml).ml_risk_probability = Rat(0, 1)

\* C18: when lot coverage equals the zoning maximum the lot-coverage subscore
\* is 0.5, for every zoning maximum; coverage below the maximum gives a
\* subscore below 0.5 and coverage above it a subscore above 0.5.
C18_SigmoidMidpoint ==
    call.op = "nl_lot_coverage_risk" =>
        LET coverage_ratio == Val(call.inp)[1]
            zoning_max == Val(call.inp)[2]
            f == Val(call.ret)
        IN  /\ coverage_ratio = zoning_max => 2 * f = Scale
            /\ coverage_ratio < zoning_max => 2 * f < Scale
            /\ coverage_ratio > zoning_max => 2 * f > Scale

\* coverage at a zoning maximum that is not the default
C18_Witness ==
    /\ call.op = "nl_lot_coverage_risk"
    /\ Val(call.inp) = <<30, 30>>
    /\ 2 * Val(call.ret) = Scale

\* C19: a call whose input has only the flood and lot-coverage keys succeeds
\* and its result has the entries overall_score, risk_tier, scoring_method
\* and uncertainty_level.  The dict returned at lines 831-842 has no
\* uncertainty_level, and this is violated.
C19_MinimalInputResult ==
    (call.op = "compute" /\ Input \in MinimalInputs) =>
        /\ call.exc = "none"
        /\ {"overall_score", "risk_tier", "scoring_method", "uncertainty_level"}
              \subseteq DOMAIN Result

\* the statements a run of _train_models executes on the load path and on
\* the training path, in order
LoadPath == <<"start", "load_gbm", "load_lr", "load_sc", "init_shap">>
TrainPath ==
    <<"start", "read_csv", "new_scaler", "fit_scaler", "new_model", "fit_model",
      "new_delay", "fit_delay", "mkdir", "dump_gbm", "dump_lr", "dump_sc",
      "init_shap">>

IsPrefix(a, b) == Len(a) <= Len(b) /\ SubSeq(b, 1, Len(a)) = a

\* the three artifact files are all there in storage st
AllFound(st) == \A f \in {"gbm", "lr", "sc"} : st[f].st # "absent"

\* the storage the running or completed import found when it began
Found == Val(call.inp)

\* C20: the first invocation (the module-level call) with scikit-learn
\* present.  When the three files all exist it only loads: the dataset is not
\* read, nothing is fitted and the storage is left as found, and on return
\* the globals hold what the files held.  When none or only some exist it
\* reads the dataset, fits scaler, classifier and delay model, persists all
\* three and only then initialises the explainer; on return the storage holds
\* the three fitted artifacts, and _train_models started over that storage
\* takes the load path.
C20_LoadOrTrain ==
    (call.op \in {"importing", "import"} /\ HAS_SKLEARN) =>
        /\ IF AllFound(Found)
           THEN IsPrefix(log, LoadPath) /\ storage = Found
           ELSE IsPrefix(log, TrainPath)
        /\ (call.op = "import" /\ call.exc = "none") =>
              IF AllFound(Found)
              THEN /\ log = LoadPath
                   /\ _model = Some(Fitted(Found.gbm.ver))
                   /\ _delay_model = Some(Fitted(Found.lr.ver))
                   /\ _scaler = Some(Fitted(Found.sc.ver))
              ELSE /\ log = TrainPath
                   /\ storage = AllPersisted(Val(csv))
                   /\ _model = Some(Fitted(Val(csv)))
                   /\ _delay_model = Some(Fitted(Val(csv)))
                   /\ _scaler = Some(Fitted(Val(csv)))
                   /\ train_step("start", FreshGlobals, storage, csv, HAS_SKLEARN,
                                 HAS_SHAP, "none").at = "load_gbm"

\* an import that found only some of the files has trained and returned
C20_Witness ==
    /\ call.op = "import" /\ call.exc = "none" /\ HAS_SKLEARN
    /\ ~AllFound(Found) /\ Found # AllAbsent
    /\ log = TrainPath
    /\ storage = AllPersisted(Val(csv))

\* the first call of this process returned a weighted_only result
FirstWeightedOnly ==
    /\ ~IsNone(first)
    /\ Val(first).exc = "none"
    /\ Val(Val(first).ret).scoring_method = "weighted_only"

\* C21: once a compute_risk_score call of a process has returned
\* scoring_method "weighted_only", every later call of that process returns
\* "weighted_only" too, and no later call loads or trains: it finds nothing
\* to attempt at line 644 and leaves the globals and the storage as they are.
C21_PermanentFallback ==
    [][(pc = "ready" /\ FirstWeightedOnly /\ call'.op = "compute") =>
            /\ ~(IsNone(_model) /\ HAS_SKLEARN)
            /\ call'.exc = "none"
            /\ Val(call'.ret).scoring_method = "weighted_only"
            /\ IsNone(Val(call'.ret).ml) /\ IsNone(Val(call'.ret).delay)
            /\ _model' = _model /\ _scaler' = _scaler
            /\ _delay_model' = _delay_model /\ _shap_explainer' = _shap_explainer
            /\ storage' = storage]_vars

\* a later call of a process whose first call fell back, with the training
\* CSV and the persisted artifacts both there to be used
C21_Witness ==
    /\ Returned
    /\ call.later
    /\ FirstWeightedOnly
    /\ Result.scoring_method = "weighted_only"
    /\ ~IsNone(csv)
    /\ storage = AllPersisted(Val(csv))

\* no run of _train_models is under way
NoRunInProgress == pc # "importing" /\ train = NoTraining

\* C22: artifacts are all-or-nothing.  Whenever no load or training is in
\* progress, either classifier, scaler and delay model are all set and
\* fitted, or the classifier is unset (so that line 644 runs the attempt
\* again).  _train_models assigns _model first on the load path (line 373)
\* and assigns the new classifier before fitting it (lines 396-403), and
\* this is violated by a run that raises part-way.
C22_AllOrNothing == NoRunInProgress => (ArtifactsComplete \/ IsNone(_model))

\* no request thread ever runs _train_models: a thread reaches line 644 only
\* after a successful import, which leaves _model set or HAS_SKLEARN false
ThreadsNeverTrain == \A t \in Threads : train[t] = "idle" /\ thr[t].at # "training"

\* C24: persisted-artifact writes are atomic.  A process that finds the
\* three artifact files present, when an earlier or another process was
\* interrupted while persisting, never loads a partially written artifact:
\* its load returns, and the three estimators it loads come from one
\* training run.  joblib.dump writes the target file in place (lines
\* 409-411): an interrupted dump leaves a partial file next to complete
\* ones, and this is violated.
C24_AtomicWrites ==
    (call.op = "import" /\ HAS_SKLEARN /\ AllFound(Found)) =>
        /\ \A f \in {"gbm", "lr", "sc"} : Found[f].st = "ok"
        /\ call.exc = "none"
        /\ ArtifactsComplete
        /\ Val(_model).ver = Val(_scaler).ver
        /\ Val(_delay_model).ver = Val(_scaler).ver

\* an optional number brought into [lo, hi]
ClampOpt(x, lo, hi) == IF IsNone(x) THEN x ELSE Some(Max(lo, Min(hi, Val(x))))

\* an optional number brought to >= 0
FloorOpt(x) == IF IsNone(x) THEN x ELSE Some(Max(0, Val(x)))

\* property_data with every numeric input clamped to its valid domain:
\* distances and ages to >= 0, fractions to [0, 1]
Clamped(pd) ==
    [pd EXCEPT !.flood_boundary_distance = FloorOpt(@),
               !.property_age = FloorOpt(@),
               !.easement_encroachment = ClampOpt(@, 0, Scale),
               !.lot_coverage_pct = ClampOpt(@, 0, Scale),
               !.zoning_max_coverage = ClampOpt(@, 0, Scale),
               !.ownership_anomaly_score = ClampOpt(@, 0, Scale)]

\* C25: numeric inputs are clamped to their valid domain before use: a call
\* on an out-of-domain input returns the subscores, the feature vector and
\* the overall_score of the call on the clamped input.  The code uses the
\* numbers as they come (lines 654-681, 712-722), and this is violated.
C25_InputsClamped ==
    (Returned /\ Input \in OutOfDomainInputs) =>
        /\ Locals.available = analysis[Clamped(Input)].available
        /\ Locals.feature_vec = analysis[Clamped(Input)].feature_vec
        /\ Result.overall_score =
              Val(score_property(CurrentGlobals, Clamped(Input)).ret).overall_score

\* the value of an optional field in the feature vector: the field when it is
\* supplied, the neutral default when it is missing
FeatureOf(field, neutral) == IF IsNone(field) THEN neutral ELSE Val(field)

HalfProduct(a, b) == Rat(a * b, 2 * Scale * Scale)

\* C27: the combined interaction term is 0.5 * (coverage * easement) + 0.5 *
\* (flood * ownership) and lies in [0, 1]; when the ownership factor is
\* unavailable its product contributes 0, the call raises no error, and the
\* term is 0.5 * (coverage * easement).
C27_InteractionTerm ==
    /\ (call.op = "compute" /\ ~OwnershipGiven(Input)) => call.exc = "none"
    /\ Returned =>
          /\ Result.interactions.value =
                RatAdd(HalfProduct(SubscoreOf(Locals.available, "coverage"),
                                   SubscoreOf(Locals.available, "easement")),
                       HalfProduct(SubscoreOf(Locals.available, "flood"),
                                   SubscoreOf(Locals.available, "ownership")))
          /\ 0 <= Result.interactions.value.n
          /\ Result.interactions.value.n <= Result.interactions.value.d
          /\ ~OwnershipGiven(Input) =>
                /\ IsSentinel(Result.factors.ownership)
                /\ Result.interactions.value =
                      HalfProduct(SubscoreOf(Locals.available, "coverage"),
                                  SubscoreOf(Locals.available, "easement"))

\* ownership unavailable, inside the flood zone, with coverage and easement
\* both contributing: the term is positive and is the first product alone
C27_Witness ==
    /\ Returned
    /\ ~OwnershipGiven(Input)
    /\ SubscoreOf(Locals.available, "flood") = Scale
    /\ Result.interactions.value.n > 0
    /\ Result.interactions.value =
          HalfProduct(SubscoreOf(Locals.available, "coverage"),
                      SubscoreOf(Locals.available, "easement"))

\* the sum of the weights reported in a factors map, in twentieths
ReportedWeightSum(factors) ==
    factors.flood.weight + factors.easement.weight + factors.coverage.weight
    + factors.ownership.weight + factors.age.weight + factors.cv_delta.weight

\* C28: the weight carried by each entry of the factors map is the weight
\* used for that factor in the aggregation: base weight over the sum of the
\* present base weights for a present factor, 0 for an unavailable one, so
\* the reported weights of a result sum to 1.  The entries carry the base
\* weights W_FLOOD .. W_CV_DELTA as they are (lines 765-829), and this is
\* violated whenever an optional factor is unavailable.
C28_ReportedWeights ==
    Returned =>
        /\ \A k \in DOMAIN Result.factors :
              Result.factors[k].weight * Locals.total_weight =
                  PresentWeights(Input)[k] * Unit
        /\ ReportedWeightSum(Result.factors) = Unit

\* C29: in every result that compute_risk_score returns, the ml block is null
\* exactly when the delay block is null; the artifacts a call can find are
\* all three set or all three unset.
C29_MlAndDelayTogether ==
    /\ Returned => (IsNone(Result.ml) <=> IsNone(Result.delay))
    /\ pc = "ready" => (ArtifactsNone \/ ArtifactsComplete)

\* a result with both blocks, from artifacts loaded from the storage
C29_Witness ==
    /\ Returned
    /\ ~IsNone(Result.ml) /\ ~IsNone(Result.delay)
    /\ IsNone(csv)
    /\ ArtifactsComplete

\* flood_zone of property_data is a number (the legacy form)
LegacyZone(pd) == ~IsNone(pd.flood_zone) /\ Val(pd.flood_zone).t = "num"

\* the inputs that differ from pd in the zone code at most
SameButZone(pd) ==
    {q \in Inputs : ~LegacyZone(q) /\ [q EXCEPT !.flood_zone = pd.flood_zone] = pd}

\* C30: when flood_zone is a number, inside_flood is (flood_zone > 0.5), the
\* zone code is "AE" or "X" accordingly and the inside_flood key is ignored;
\* when flood_zone is a string (or omitted: "X"), inside_flood is the input
\* key, false by default, and the zone code alone never changes the flood
\* subscore.
C30_LegacyFloodZone ==
    Returned =>
        IF LegacyZone(Input)
        THEN /\ Locals.inside_flood = (Val(Input.flood_zone).n > 50)
             /\ Locals.flood_zone = (IF Val(Input.flood_zone).n > 50 THEN "AE" ELSE "X")
             /\ Locals.feature_vec[1] = (IF Val(Input.flood_zone).n > 50 THEN 1 ELSE 0)
             /\ (SubscoreOf(Locals.available, "flood") = Scale) <=>
                   (Val(Input.flood_zone).n > 50
                    \/ FeatureOf(Input.flood_boundary_distance, 1000) <= 0)
        ELSE /\ Locals.inside_flood = FeatureOf(Input.inside_flood, FALSE)
             /\ Locals.flood_zone = (IF IsNone(Input.flood_zone) THEN "X"
                                     ELSE Val(Input.flood_zone).s)
             /\ \A q \in SameButZone(Input) :
                   SubscoreOf(analysis[q].available, "flood") =
                       SubscoreOf(Locals.available, "flood")

\* a legacy call with flood_zone 0.2 and inside_flood true: the key is ignored
C30_Witness ==
    /\ Returned
    /\ LegacyZone(Input)
    /\ Val(Input.flood_zone).n = 20
    /\ Input.inside_flood = Some(TRUE)
    /\ ~Locals.inside_flood
    /\ Locals.flood_zone = "X"
    /\ SubscoreOf(Locals.available, "flood") < Scale
====
